---- MODULE Spec2Model ----
(***************************************************************************)
(* Model of the hill chart of src/src/HillChart.tsx: the curve mapper      *)
(* (hillY01, hillCoords), the text wrapper (wrapText) and the label layout *)
(* pass (calculateLabelPositions) with the labelMap built from its result, *)
(* the phase classifier (computePhase) and the drawing of the markers;      *)
(* the drag handlers of the chart with handleUpdateEpicX of src/src/App.tsx *)
(* that they call; and the AuthProvider (second part of HillChart.tsx).     *)
(*                                                                         *)
(* Numbers.  The code computes in IEEE doubles.  The model computes in     *)
(* exact rationals: every coordinate is an integer count of 1/Scale of an  *)
(* SVG unit.  With integer progress values every quantity of the layout    *)
(* pass is a multiple of 1/500 (svgY needs 1/125, half a box width 1/4),   *)
(* so Scale = 500 loses nothing.  Progress values are the integers 0..100. *)
(*                                                                         *)
(* Text.  A title is a sequence of one-character strings; " " is the word  *)
(* separator of wrapText.                                                  *)
(***************************************************************************)
EXTENDS Integers, Sequences, FiniteSets, TLC

VARIABLES
    epics,            \* props.epics: the caller's marker list, <<[key, x, title]>>
    pc,               \* position in the render: "start", "loop", "done"
    labelPositions,   \* calculateLabelPositions: the array being resolved
    i,                \* calculateLabelPositions: index of the loop at line 220 (1-based)
    locals,           \* per processed index: the loop body's local variables
    labelMap,         \* the Map built at line 447: key -> entry of labelPositions
    drawn,            \* the <g> elements of lines 479-620, one per drawn marker
    addresses,        \* the identity of each object of labelPositions
    allocated,        \* how many label objects were created so far
    history,          \* the earlier renders: their epics and the objects they left
    draggingKey,      \* HillChart state draggingKey (line 78)
    isModified,       \* App state isModified (App.tsx line 171)
    pressed,          \* the marker that got the last mousedown not yet followed by a mouseup
    lastEvent,        \* the mouse or click event handled last
    handled,          \* how many mouse and click events were handled so far
    updates,          \* the calls of onUpdateEpicX so far, <<[key, x]>>
    user,             \* AuthProvider state user (line 680)
    loading,          \* AuthProvider state loading (line 681)
    error,            \* AuthProvider state error (line 682)
    currentUser,      \* the auth service: the signed-in account
    pending,          \* the auth service: auth-state notifications not yet delivered
    signIn,           \* position of signInWithGoogle (lines 709-735)
    logOut,           \* position of logout (lines 737-747)
    delivered         \* the notification the onAuthStateChanged callback handled last

chartVars == <<epics, pc, labelPositions, i, locals, labelMap, drawn, addresses, allocated, history>>
dragVars == <<draggingKey, isModified, pressed, lastEvent, handled, updates>>
authVars == <<user, loading, error, currentUser, pending, signIn, logOut, delivered>>
vars == <<chartVars, dragVars, authVars>>

----------------------------------------------------------------------------
(* Program constants.                                                      *)

HILL_WIDTH == 800
HILL_HEIGHT == 400
MARGIN_X == 40
MARGIN_Y == 40
TITLE_HEIGHT == 40
DOT_RADIUS == 10
MIN_SPACING == 8
NEARBY_THRESHOLD == 100
WrapWidth == 18
maxAttempts == 100
stepSize == 5
MaxProgress == 100

\* Fixed-point scale: coordinates are integers in units of 1/Scale.
Scale == 125 * 4

\* estimatedCharWidth = 6.5, lineHeight, paddingX and paddingY of lines 142-148, scaled.
estimatedCharWidth == (13 * Scale) \div 2
lineHeight == 14 * Scale
paddingX == 6 * Scale
paddingY == 4 * Scale

Abs(n) == IF n < 0 THEN -n ELSE n
Max(a, b) == IF a > b THEN a ELSE b
Min(a, b) == IF a < b THEN a ELSE b

----------------------------------------------------------------------------
(* Curve mapper.                                                           *)

\* Mutant of hillY01: the hump with its top cut off at 0.9984.
hillY01Clipped(x) == Min(4 * x * (MaxProgress - x), 9984)

\* hillY01(x) = 4 t (1 - t) with t = x/100, in units of 1/10000.
hillY01(x) == 4 * x * (MaxProgress - x)

\* Mutant of hillCoords: svgX runs from right to left.
hillCoordsMirrored(x) ==
    LET hillHeight == HILL_HEIGHT - 2 * MARGIN_Y - TITLE_HEIGHT
        hillWidth == HILL_WIDTH - 2 * MARGIN_X
        hillTopY == MARGIN_Y
    IN  [svgX |-> Scale * (HILL_WIDTH - MARGIN_X) - (Scale * hillWidth * x) \div MaxProgress,
         svgY |-> Scale * hillTopY + Scale * hillHeight
                    - (Scale * hillHeight * hillY01(x)) \div (MaxProgress * MaxProgress)]

\* Mutant of hillCoords: the hill spans the full width and height of the
\* view box, without margins.
hillCoordsNoMargin(x) ==
    [svgX |-> (Scale * HILL_WIDTH * x) \div MaxProgress,
     svgY |-> Scale * HILL_HEIGHT
                - (Scale * HILL_HEIGHT * hillY01(x)) \div (MaxProgress * MaxProgress)]

\* hillCoords(x): svgX and svgY.
hillCoords(x) ==
    LET hillHeight == HILL_HEIGHT - 2 * MARGIN_Y - TITLE_HEIGHT
        hillWidth == HILL_WIDTH - 2 * MARGIN_X
        hillTopY == MARGIN_Y
    IN  [svgX |-> Scale * MARGIN_X + (Scale * hillWidth * x) \div MaxProgress,
         svgY |-> Scale * hillTopY + Scale * hillHeight
                    - (Scale * hillHeight * hillY01(x)) \div (MaxProgress * MaxProgress)]

\* Mutant of computePhase: each boundary value belongs to the lower interval.
computePhaseClosed(x) ==
    IF x <= 25 THEN "UPHILL"
    ELSE IF x <= 50 THEN "CREST"
    ELSE IF x <= 80 THEN "DOWNHILL"
    ELSE "DONE"

\* computePhase (lines 45-50).
computePhase(x) ==
    IF x < 25 THEN "UPHILL"
    ELSE IF x < 50 THEN "CREST"
    ELSE IF x < 80 THEN "DOWNHILL"
    ELSE "DONE"

\* The fill colour of a marker's circle (lines 485-492).
phaseColor(phase) ==
    IF phase = "UPHILL" THEN "#f97316"
    ELSE IF phase = "CREST" THEN "#eab308"
    ELSE IF phase = "DOWNHILL" THEN "#22c55e"
    ELSE "#0ea5e9"

----------------------------------------------------------------------------
(* wrapText.                                                               *)

\* The position of the m-th separator of text; 0 for m = 0 and
\* Len(text) + 1 past the last one.
SeparatorAt(text, m) ==
    LET seps == {k \in 1..Len(text) : text[k] = " "}
    IN  IF m = 0 THEN 0
        ELSE IF m > Cardinality(seps) THEN Len(text) + 1
        ELSE CHOOSE k \in seps : Cardinality({j \in seps : j < k}) = m - 1

\* text.split(" "): the words between the separators, empty words included.
Split(text) ==
    LET n == Cardinality({k \in 1..Len(text) : text[k] = " "})
    IN  [m \in 1..(n + 1) |->
            SubSeq(text, SeparatorAt(text, m - 1) + 1, SeparatorAt(text, m) - 1)]

RECURSIVE WrapWords(_, _, _, _, _)
\* The for loop of wrapText over words[k..], then the final push.
WrapWords(words, k, lines, currentLine, maxCharsPerLine) ==
    IF k > Len(words)
    THEN IF currentLine # <<>> THEN Append(lines, currentLine) ELSE lines
    ELSE LET word == words[k] IN
         IF currentLine = <<>>
         THEN WrapWords(words, k + 1, lines, word, maxCharsPerLine)
         ELSE IF Len(currentLine) + 1 + Len(word) <= maxCharsPerLine
         THEN WrapWords(words, k + 1, lines, currentLine \o <<" ">> \o word, maxCharsPerLine)
         ELSE WrapWords(words, k + 1, Append(lines, currentLine), word, maxCharsPerLine)

\* Mutant of wrapText: without the fallback to [text] when no line was pushed.
wrapTextNoFallback(text, maxCharsPerLine) ==
    WrapWords(Split(text), 1, <<>>, <<>>, maxCharsPerLine)

\* Mutant of wrapText: the text is cut every maxCharsPerLine characters.
wrapTextCut(text, maxCharsPerLine) ==
    IF text = <<>> THEN <<text>>
    ELSE [k \in 1..((Len(text) + maxCharsPerLine - 1) \div maxCharsPerLine) |->
             SubSeq(text, (k - 1) * maxCharsPerLine + 1,
                    Min(k * maxCharsPerLine, Len(text)))]

wrapText(text, maxCharsPerLine) ==
    LET lines == WrapWords(Split(text), 1, <<>>, <<>>, maxCharsPerLine)
    IN  IF Len(lines) > 0 THEN lines ELSE <<text>>

RECURSIVE LongestFrom(_, _, _)
\* textLines.reduce((a, b) => a.length > b.length ? a : b, "")
LongestFrom(textLines, k, a) ==
    IF k > Len(textLines) THEN a
    ELSE LongestFrom(textLines, k + 1,
                     IF Len(a) > Len(textLines[k]) THEN a ELSE textLines[k])

longestLine(textLines) == LongestFrom(textLines, 1, <<>>)

----------------------------------------------------------------------------
(* calculateLabelPositions: label data, processing order, initial entries.  *)

\* One element of labelData (lines 139-164).
LabelDataOf(epic) ==
    LET c == hillCoords(epic.x)
        textLines == wrapText(epic.title, WrapWidth)
        textWidth == Len(longestLine(textLines)) * estimatedCharWidth
        textHeight == Len(textLines) * lineHeight
    IN  [epic |-> epic,
         svgX |-> c.svgX,
         svgY |-> c.svgY,
         boxWidth |-> textWidth + paddingX * 2,
         boxHeight |-> textHeight + paddingY * 2,
         textLines |-> textLines,
         lineHeight |-> lineHeight,
         paddingX |-> paddingX,
         paddingY |-> paddingY,
         needsConnector |-> FALSE]

labelDataOf(es) == [k \in 1..Len(es) |-> LabelDataOf(es[k])]

\* Mutant of SortRank: elements with the same svgX come out in reverse
\* input order.
SortRankTiesReversed(data, k) ==
    1 + Cardinality({j \in 1..Len(data) : data[j].svgX < data[k].svgX})
      + Cardinality({j \in (k + 1)..Len(data) : data[j].svgX = data[k].svgX})

\* The place of element k after the stable sort by svgX (line 167).
SortRank(data, k) ==
    1 + Cardinality({j \in 1..Len(data) : data[j].svgX < data[k].svgX})
      + Cardinality({j \in 1..(k - 1) : data[j].svgX = data[k].svgX})

\* Mutant of sorted: a sort that keeps one element per svgX (the first).
sortedDroppingTies(data) ==
    LET keep == {k \in 1..Len(data) : \A j \in 1..(k - 1) : data[j].svgX # data[k].svgX}
    IN  [r \in 1..Cardinality(keep) |->
            data[CHOOSE k \in keep :
                    Cardinality({j \in keep : data[j].svgX < data[k].svgX}) = r - 1]]

\* Mutant of sorted: the input order is kept.
sortedAsGiven(data) == data

\* [...labelData].sort((a, b) => a.svgX - b.svgX)
sorted(data) ==
    [r \in 1..Len(data) |-> data[CHOOSE k \in 1..Len(data) : SortRank(data, k) = r]]

\* Mutant of InitialPosition: a marker whose key the previous render placed
\* starts with the isAngled, offsetX and offsetY that render left.
InitialPositionKept(data) ==
    LET baseY == data.svgY - 20 * Scale
                   - (Len(data.textLines) - 1) * (data.lineHeight \div 2)
        old == {j \in 1..Len(labelPositions) : labelPositions[j].epic.key = data.epic.key}
        kept == IF old = {} THEN [isAngled |-> FALSE, offsetX |-> 0, offsetY |-> 0]
                ELSE labelPositions[CHOOSE j \in old : TRUE]
    IN  [epic |-> data.epic, svgX |-> data.svgX, svgY |-> data.svgY,
         boxWidth |-> data.boxWidth, boxHeight |-> data.boxHeight,
         textLines |-> data.textLines, lineHeight |-> data.lineHeight,
         paddingX |-> data.paddingX, paddingY |-> data.paddingY,
         labelY |-> baseY,
         boxY |-> baseY - data.lineHeight + 2 * Scale - data.paddingY,
         needsConnector |-> FALSE,
         isBelowDot |-> FALSE,
         isAngled |-> kept.isAngled,
         offsetX |-> kept.offsetX,
         offsetY |-> kept.offsetY,
         isAtClosestPosition |-> FALSE]

\* One initial element of labelPositions (lines 170-183).
InitialPosition(data) ==
    LET baseY == data.svgY - 20 * Scale
                   - (Len(data.textLines) - 1) * (data.lineHeight \div 2)
    IN  [epic |-> data.epic, svgX |-> data.svgX, svgY |-> data.svgY,
         boxWidth |-> data.boxWidth, boxHeight |-> data.boxHeight,
         textLines |-> data.textLines, lineHeight |-> data.lineHeight,
         paddingX |-> data.paddingX, paddingY |-> data.paddingY,
         labelY |-> baseY,
         boxY |-> baseY - data.lineHeight + 2 * Scale - data.paddingY,
         needsConnector |-> FALSE,
         isBelowDot |-> FALSE,
         isAngled |-> FALSE,
         offsetX |-> 0,
         offsetY |-> 0,
         isAtClosestPosition |-> FALSE]

initialLabelPositions(es) ==
    LET s == sorted(labelDataOf(es))
    IN  [k \in 1..Len(s) |-> InitialPosition(s[k])]

----------------------------------------------------------------------------
(* calculateLabelPositions: the helpers of the resolution loop.            *)

\* Mutant of boxesOverlap: the plain rectangle test, without MIN_SPACING.
boxesOverlapNoSpacing(box1X, box1Y, box1Width, box1Height, box2X, box2Y, box2Width, box2Height) ==
    /\ box1X + box1Width \div 2 > box2X - box2Width \div 2
    /\ box1X - box1Width \div 2 < box2X + box2Width \div 2
    /\ box1Y + box1Height > box2Y
    /\ box1Y < box2Y + box2Height

\* boxesOverlap (lines 186-196): box X is the centre, box Y the top edge.
boxesOverlap(box1X, box1Y, box1Width, box1Height, box2X, box2Y, box2Width, box2Height) ==
    /\ box1X + box1Width \div 2 > box2X - box2Width \div 2
    /\ box1X - box1Width \div 2 < box2X + box2Width \div 2
    /\ box1Y + box1Height > box2Y - MIN_SPACING * Scale
    /\ box1Y < box2Y + box2Height + MIN_SPACING * Scale

\* boxOverlapsDot (lines 199-213).  sqrt(dx^2 + dy^2) < r is decided as
\* dx^2 + dy^2 < r^2; when |dx| or |dy| alone reaches r the distance is at
\* least r, and the squares are not formed.
boxOverlapsDot(boxX, boxY, boxWidth, boxHeight, dotX, dotY, dotRadius) ==
    LET closestX == Max(boxX - boxWidth \div 2, Min(dotX, boxX + boxWidth \div 2))
        closestY == Max(boxY, Min(dotY, boxY + boxHeight))
        dx == dotX - closestX
        dy == dotY - closestY
        r == (dotRadius + MIN_SPACING) * Scale
    IN  IF Abs(dx) >= r \/ Abs(dy) >= r THEN FALSE
        ELSE dx * dx + dy * dy < r * r

\* Mutant of minY: the top bound without its 5 units of padding.
minYNoPadding == MARGIN_Y * Scale

\* Bounds for label placement (lines 216-217).
minY == (MARGIN_Y + 5) * Scale
maxY == (HILL_HEIGHT - MARGIN_Y - TITLE_HEIGHT - 5) * Scale

\* isWithinBounds (lines 233-235).
isWithinBounds(boxY, boxHeight) == boxY >= minY /\ (boxY + boxHeight) <= maxY

\* Initial positions above and below the dot (lines 225-230).
initialYAbove(current) ==
    current.svgY - 20 * Scale - (Len(current.textLines) - 1) * (current.lineHeight \div 2)
initialBoxYAbove(current) ==
    initialYAbove(current) - current.lineHeight + 2 * Scale - current.paddingY
initialYBelow(current) ==
    current.svgY + 20 * Scale + (Len(current.textLines) - 1) * (current.lineHeight \div 2)
initialBoxYBelow(current) ==
    initialYBelow(current) - current.lineHeight + 2 * Scale - current.paddingY

\* Mutant of placedLabels: no earlier label is compared with.
placedLabelsNone(lp, idx) == {}

\* Mutant of placedLabels: the labels of the markers not yet processed are
\* compared with too, at their initial positions.
placedLabelsAll(lp, idx) == {j \in 1..Len(lp) : j # idx}

\* The labels checkOverlaps compares with: those already positioned (line 264).
placedLabels(lp, idx) == 1..(idx - 1)

\* Mutant of otherDots: only the dots of the markers already placed.
otherDotsPlacedOnly(lp, idx) == 1..(idx - 1)

\* The dots checkOverlaps compares with: every other dot (lines 277-278).
otherDots(lp, idx) == {j \in 1..Len(lp) : j # idx}

\* checkOverlaps (lines 238-291) for labelPositions[idx]; hasBoxX tells
\* whether the optional boxX was passed.  TRUE means "not a valid position".
checkOverlaps(lp, idx, boxY, hasBoxX, boxX) ==
    LET current == lp[idx]
        labelX == IF hasBoxX THEN boxX ELSE current.svgX
    IN  \/ ~isWithinBounds(boxY, current.boxHeight)
        \/ /\ hasBoxX
           /\ \/ labelX - current.boxWidth \div 2 < MARGIN_X * Scale
              \/ labelX + current.boxWidth \div 2 > (HILL_WIDTH - MARGIN_X) * Scale
        \/ boxOverlapsDot(labelX, boxY, current.boxWidth, current.boxHeight,
                          current.svgX, current.svgY, DOT_RADIUS)
        \/ \E j \in placedLabels(lp, idx) :
              LET other == lp[j]
                  otherX == IF other.isAngled THEN other.svgX + other.offsetX
                            ELSE other.svgX
              IN  boxesOverlap(labelX, boxY, current.boxWidth, current.boxHeight,
                               otherX, other.boxY, other.boxWidth, other.boxHeight)
        \/ \E j \in otherDots(lp, idx) :
              boxOverlapsDot(labelX, boxY, current.boxWidth, current.boxHeight,
                             lp[j].svgX, lp[j].svgY, DOT_RADIUS)

\* Side preference (lines 295-314).
nearbyCount(lp, idx, below) ==
    Cardinality({j \in 1..(idx - 1) :
                    /\ Abs(lp[idx].svgX - lp[j].svgX) < NEARBY_THRESHOLD * Scale
                    /\ lp[j].isBelowDot = below})

\* Mutant of preferBelow: a tie prefers below.
preferBelowOnTie(lp, idx) == nearbyCount(lp, idx, FALSE) >= nearbyCount(lp, idx, TRUE)

preferBelow(lp, idx) == nearbyCount(lp, idx, FALSE) > nearbyCount(lp, idx, TRUE)

RECURSIVE SearchLoopShortCap(_, _, _, _, _, _)
\* Mutant of SearchLoop: the loop gives up after three steps.
SearchLoopShortCap(lp, idx, isBelow, labelY, boxY, attempts) ==
    IF attempts >= 3
    THEN [success |-> FALSE, moved |-> TRUE, labelY |-> labelY, boxY |-> boxY,
          isBelowDot |-> isBelow, attempts |-> attempts]
    ELSE IF ~checkOverlaps(lp, idx, boxY, FALSE, 0)
    THEN [success |-> TRUE, moved |-> TRUE, labelY |-> labelY, boxY |-> boxY,
          isBelowDot |-> isBelow, attempts |-> attempts]
    ELSE LET moveAmount == IF isBelow THEN stepSize * Scale ELSE -(stepSize * Scale)
             newLabelY == labelY + moveAmount
             newBoxY == boxY + moveAmount
         IN  IF \/ ~isBelow /\ newBoxY < minY
                \/ isBelow /\ newBoxY + lp[idx].boxHeight > maxY
             THEN [success |-> FALSE, moved |-> TRUE, labelY |-> newLabelY,
                   boxY |-> newBoxY, isBelowDot |-> isBelow, attempts |-> attempts]
             ELSE SearchLoopShortCap(lp, idx, isBelow, newLabelY, newBoxY, attempts + 1)

RECURSIVE SearchLoop(_, _, _, _, _, _)
\* The while loop of tryPosition (lines 342-364).
SearchLoop(lp, idx, isBelow, labelY, boxY, attempts) ==
    IF attempts >= maxAttempts
    THEN [success |-> FALSE, moved |-> TRUE, labelY |-> labelY, boxY |-> boxY,
          isBelowDot |-> isBelow, attempts |-> attempts]
    ELSE IF ~checkOverlaps(lp, idx, boxY, FALSE, 0)
    THEN [success |-> TRUE, moved |-> TRUE, labelY |-> labelY, boxY |-> boxY,
          isBelowDot |-> isBelow, attempts |-> attempts]
    ELSE LET moveAmount == IF isBelow THEN stepSize * Scale ELSE -(stepSize * Scale)
             newLabelY == labelY + moveAmount
             newBoxY == boxY + moveAmount
         IN  IF \/ ~isBelow /\ newBoxY < minY
                \/ isBelow /\ newBoxY + lp[idx].boxHeight > maxY
             THEN [success |-> FALSE, moved |-> TRUE, labelY |-> newLabelY,
                   boxY |-> newBoxY, isBelowDot |-> isBelow, attempts |-> attempts]
             ELSE SearchLoop(lp, idx, isBelow, newLabelY, newBoxY, attempts + 1)

\* Mutant of tryPosition: the search stops at the first step it takes.
tryPositionOneStep(lp, idx, isBelow) ==
    LET current == lp[idx]
        initialY == IF isBelow THEN initialYBelow(current) ELSE initialYAbove(current)
        initialBoxY == IF isBelow THEN initialBoxYBelow(current)
                       ELSE initialBoxYAbove(current)
        moveAmount == IF isBelow THEN stepSize * Scale ELSE -(stepSize * Scale)
    IN  IF ~isWithinBounds(initialBoxY, current.boxHeight)
        THEN [success |-> FALSE, moved |-> FALSE, labelY |-> initialY,
              boxY |-> initialBoxY, isBelowDot |-> isBelow, attempts |-> 0]
        ELSE IF ~checkOverlaps(lp, idx, initialBoxY, FALSE, 0)
        THEN [success |-> TRUE, moved |-> FALSE, labelY |-> initialY,
              boxY |-> initialBoxY, isBelowDot |-> isBelow, attempts |-> 0]
        ELSE [success |-> ~checkOverlaps(lp, idx, initialBoxY + moveAmount, FALSE, 0),
              moved |-> TRUE, labelY |-> initialY + moveAmount,
              boxY |-> initialBoxY + moveAmount, isBelowDot |-> isBelow, attempts |-> 1]

\* tryPosition (lines 318-365): the result, with the fields of `current` it
\* leaves behind (labelY, boxY, isBelowDot) and the attempts counter.
tryPosition(lp, idx, isBelow) ==
    LET current == lp[idx]
        initialY == IF isBelow THEN initialYBelow(current) ELSE initialYAbove(current)
        initialBoxY == IF isBelow THEN initialBoxYBelow(current)
                       ELSE initialBoxYAbove(current)
    IN  IF ~isWithinBounds(initialBoxY, current.boxHeight)
        THEN [success |-> FALSE, moved |-> FALSE, labelY |-> initialY,
              boxY |-> initialBoxY, isBelowDot |-> isBelow, attempts |-> 0]
        ELSE IF ~checkOverlaps(lp, idx, initialBoxY, FALSE, 0)
        THEN [success |-> TRUE, moved |-> FALSE, labelY |-> initialY,
              boxY |-> initialBoxY, isBelowDot |-> isBelow, attempts |-> 0]
        ELSE SearchLoop(lp, idx, isBelow, initialY, initialBoxY, 0)

\* angleOffsets (lines 369-374): top-right, top-left, bottom-right, bottom-left.
angleOffsets(current) ==
    << [x |-> current.boxWidth \div 2 + 15 * Scale,
        y |-> -(current.boxHeight \div 2) - 10 * Scale],
       [x |-> -(current.boxWidth \div 2 + 15 * Scale),
        y |-> -(current.boxHeight \div 2) - 10 * Scale],
       [x |-> current.boxWidth \div 2 + 15 * Scale,
        y |-> current.boxHeight \div 2 + 10 * Scale],
       [x |-> -(current.boxWidth \div 2 + 15 * Scale),
        y |-> current.boxHeight \div 2 + 10 * Scale] >>

\* The box top of an angled candidate (lines 377-379).
angledBoxY(current, offset) ==
    current.svgY + offset.y - current.lineHeight + 2 * Scale - current.paddingY

\* Mutant of tryAngledPosition: the last valid offset is taken.
tryAngledPositionLastValid(lp, idx) ==
    LET current == lp[idx]
        offs == angleOffsets(current)
        valid == {k \in 1..Len(offs) :
                    ~checkOverlaps(lp, idx, angledBoxY(current, offs[k]),
                                   TRUE, current.svgX + offs[k].x)}
    IN  IF valid = {} THEN 0 ELSE CHOOSE k \in valid : \A m \in valid : k >= m

\* tryAngledPosition (lines 368-393): 0 when no offset is valid, else the
\* index of the first valid offset.
tryAngledPosition(lp, idx) ==
    LET current == lp[idx]
        offs == angleOffsets(current)
        valid == {k \in 1..Len(offs) :
                    ~checkOverlaps(lp, idx, angledBoxY(current, offs[k]),
                                   TRUE, current.svgX + offs[k].x)}
    IN  IF valid = {} THEN 0 ELSE CHOOSE k \in valid : \A m \in valid : k <= m

----------------------------------------------------------------------------
(* calculateLabelPositions: one pass of the loop body (lines 220-440).     *)

\* Mutant of wasMovedAfterFallback: the fallback's result overwrites wasMoved.
wasMovedOverwritten(moved1, moved2) == moved2

\* wasMoved after the fallback to the other side (lines 406, 415).
wasMovedAfterFallback(moved1, moved2) == moved1 \/ moved2

\* The fallback chain of lines 396-425 for labelPositions[idx]: the local
\* variables it computes and the fields of `current` it leaves behind.
resolve(lp, idx) ==
    LET current == lp[idx]
        pb == preferBelow(lp, idx)
        result == tryPosition(lp, idx, pb)
        result2 == tryPosition(lp, idx, ~pb)
        last == IF result.success THEN result ELSE result2
        movedVertical == last.success
        wasMovedVertical == IF result.success THEN result.moved
                            ELSE wasMovedAfterFallback(result.moved, result2.moved)
        angle == IF movedVertical THEN 0 ELSE tryAngledPosition(lp, idx)
        offset == angleOffsets(current)[angle]
    IN  IF angle = 0
        THEN [preferBelow |-> pb, moved |-> movedVertical, wasMoved |-> wasMovedVertical,
              attempts |-> Max(result.attempts, IF result.success THEN 0 ELSE result2.attempts),
              results |-> IF result.success THEN <<result>> ELSE <<result, result2>>,
              angle |-> 0,
              labelY |-> last.labelY, boxY |-> last.boxY, isBelowDot |-> last.isBelowDot,
              isAngled |-> current.isAngled, offsetX |-> current.offsetX,
              offsetY |-> current.offsetY]
        ELSE [preferBelow |-> pb, moved |-> TRUE, wasMoved |-> TRUE,
              attempts |-> Max(result.attempts, result2.attempts),
              results |-> <<result, result2>>,
              angle |-> angle,
              labelY |-> current.svgY + offset.y, boxY |-> angledBoxY(current, offset),
              isBelowDot |-> offset.y > 0,
              isAngled |-> TRUE, offsetX |-> offset.x, offsetY |-> offset.y]

\* Mutant of clampBoxY: the final clamp is left out.
clampBoxYNone(boxY, boxHeight) == boxY

\* The clamp of lines 428-435 applied to a box top: the new boxY.
clampBoxY(boxY, boxHeight) ==
    LET top == IF boxY < minY THEN minY ELSE boxY
    IN  IF top + boxHeight > maxY THEN maxY - boxHeight ELSE top

\* labelY after the clamp (lines 430, 434): recomputed only where a clamp applied.
clampLabelY(labelY, boxY, current) ==
    LET top == IF boxY < minY THEN minY ELSE boxY
        labelTop == IF boxY < minY
                    THEN minY + current.lineHeight - 2 * Scale + current.paddingY
                    ELSE labelY
    IN  IF top + current.boxHeight > maxY
        THEN (maxY - current.boxHeight) + current.lineHeight - 2 * Scale + current.paddingY
        ELSE labelTop

\* isAtClosestPosition (line 439).
atClosestPosition(wasMoved, isAngled) == ~wasMoved /\ ~isAngled

\* labelPositions[idx] after its pass of the loop body.
placed(lp, idx) ==
    LET current == lp[idx]
        r == resolve(lp, idx)
    IN  [current EXCEPT
            !.labelY = clampLabelY(r.labelY, r.boxY, current),
            !.boxY = clampBoxY(r.boxY, current.boxHeight),
            !.isBelowDot = r.isBelowDot,
            !.isAngled = r.isAngled,
            !.offsetX = r.offsetX,
            !.offsetY = r.offsetY,
            !.isAtClosestPosition = atClosestPosition(r.wasMoved, r.isAngled)]

\* The loop body's local variables kept for the record: preferBelow (line
\* 314), moved (line 222), wasMoved (line 396), the largest attempts counter
\* (line 337), current.boxY as it stood before the clamp, the offset index
\* tryAngledPosition stopped at (0: none, or not called) and what each call
\* of tryPosition returned and left in `current` (lines 400-415).
localsOf(lp, idx) ==
    LET r == resolve(lp, idx)
    IN  [preferBelow |-> r.preferBelow, moved |-> r.moved, wasMoved |-> r.wasMoved,
         attempts |-> r.attempts, boxYBeforeClamp |-> r.boxY,
         angle |-> r.angle, results |-> r.results]

\* new Map(labelPositions.map(lp => [lp.epic.key, lp])) (line 447): a later
\* entry with the same key replaces an earlier one.
mapOf(lp) ==
    [k \in {lp[j].epic.key : j \in 1..Len(lp)} |->
        lp[CHOOSE j \in 1..Len(lp) :
              /\ lp[j].epic.key = k
              /\ \A m \in 1..Len(lp) : lp[m].epic.key = k => m <= j]]

\* The <g> elements the render returns (lines 479-620): one per marker of
\* epics, in input order, for the markers the map has an entry for.
drawnOf(es, map) ==
    [k \in 1..Len(es) |->
        LET phase == computePhase(es[k].x)
        IN  [key |-> es[k].key, x |-> es[k].x, phase |-> phase,
             color |-> phaseColor(phase),
             connector |-> ~map[es[k].key].isAtClosestPosition]]

----------------------------------------------------------------------------
(* Objects.  sorted.map(...) at line 170 builds one new object per marker;  *)
(* `current` (line 221) is a reference to the object in labelPositions, so *)
(* the loop body writes to that object.                                     *)

\* Mutant of allocate: the objects of the previous render are used again.
allocateReusing(from, n) == [k \in 1..n |-> k]

\* The identities of n newly created objects, `from` having been created before.
allocate(from, n) == [k \in 1..n |-> from + k]

\* What the earlier renders' arrays hold once the objects at addrs hold lp:
\* an array entry that is one of these objects shows the new content.
sharedObjects(hist, addrs, lp) ==
    [h \in 1..Len(hist) |->
        [hist[h] EXCEPT !.labelPositions =
            [k \in 1..Len(hist[h].addresses) |->
                IF \E m \in 1..Len(addrs) : addrs[m] = hist[h].addresses[k]
                THEN lp[CHOOSE m \in 1..Len(addrs) : addrs[m] = hist[h].addresses[k]]
                ELSE hist[h].labelPositions[k]]]]

----------------------------------------------------------------------------
(* Inputs.                                                                 *)

\* Bounds of the model.
MaxMarkers == 3
MaxSame == 5
MaxLines == 10
MaxRenders == 3

KeyNames == <<"A", "B", "C", "D", "E", "F", "G", "H">>

\* A title of n words of w letters each, separated by single spaces.
Title(n, w) ==
    IF n = 0 THEN <<>>
    ELSE [k \in 1..(n * (w + 1) - 1) |-> IF k % (w + 1) = 0 THEN " " ELSE "x"]

\* The titles "" and "x", one 18-letter word, and titles that wrap
\* to 2..MaxLines lines of one 10-letter word each.
Titles == {Title(0, 0), Title(1, 1), Title(1, WrapWidth)}
            \cup {Title(n, 10) : n \in 2..MaxLines}

ListProgress == {0, 25, 30, 50}
ListTitles == {Title(1, 1), Title(2, 10), Title(6, 10)}
PairProgress == {21, 30, 49, 51, 77, 84}

Epic(k, x, t) == [key |-> KeyNames[k], x |-> x, title |-> t]

\* One marker, every integer progress, every title.
Singles == {<<Epic(1, x, t)>> : x \in 0..MaxProgress, t \in Titles}

\* Lists of 0..MaxMarkers markers with pairwise distinct keys.
Lists ==
    UNION {{[k \in 1..n |-> Epic(k, c[k][1], c[k][2])] :
               c \in [1..n -> ListProgress \X ListTitles]} : n \in 0..MaxMarkers}

\* Two markers, every title, in both input orders.
Pairs ==
    {<<Epic(1, x1, t1), Epic(2, x2, t2)>> :
        x1 \in PairProgress, t1 \in Titles, x2 \in PairProgress, t2 \in Titles}

\* 1..MaxSame markers on the crest with the same title.
SameSpot == {[k \in 1..n |-> Epic(k, 50, t)] : n \in 1..MaxSame, t \in Titles}

\* Two markers that share one key (the caller broke key uniqueness).
DupKeys ==
    {<<Epic(1, x1, t), Epic(1, x2, t)>> :
        x1 \in ListProgress, x2 \in ListProgress, t \in ListTitles}

\* Two markers near the right end of the hill, in both input orders.
RightEndProgress == {82, 88, 90, 96}
RightEndTitles == {Title(1, WrapWidth), Title(6, 10), Title(9, 10)}
RightEnd ==
    {<<Epic(1, x1, t1), Epic(2, x2, t2)>> :
        x1 \in RightEndProgress, t1 \in RightEndTitles,
        x2 \in RightEndProgress, t2 \in RightEndTitles}

Inputs == Singles \cup Lists \cup Pairs \cup SameSpot \cup DupKeys \cup RightEnd

\* Two markers with a one-letter title, every pair of integer progress values.
CurvePairs ==
    {<<Epic(1, x1, Title(1, 1)), Epic(2, x2, Title(1, 1))>> :
        x1 \in 0..MaxProgress, x2 \in 0..MaxProgress}

\* The marker lists of successive renders: none, marker "A" alone, or "B"
\* followed by "A", each at progress 25 or 30 with a six-line title.
RenderProgress == {25, 30}
RenderInputs ==
    {<<>>}
    \cup {<<Epic(1, x, Title(6, 10))>> : x \in RenderProgress}
    \cup {<<Epic(2, x2, Title(6, 10)), Epic(1, x1, Title(6, 10))>> :
              x1 \in RenderProgress, x2 \in RenderProgress}

----------------------------------------------------------------------------
(* Users and mouse state.                                                  *)

\* ALLOWED_DOMAIN (line 655), as a sequence of one-character strings.
ALLOWED_DOMAIN ==
    <<"p", "a", "r", "e", "n", "t", "s", "q", "u", "a", "r", "e", ".", "c", "o", "m">>

\* A signed-in account with the email it reports (<<>>: none), and no account.
User(email) == [present |-> TRUE, email |-> email]
NoUser == [present |-> FALSE, email |-> <<>>]

\* Accounts: one of the allowed domain, one of another domain, one whose
\* domain only ends with the allowed domain's name, one without email.
Staff == User(<<"a", "@">> \o ALLOWED_DOMAIN)
Outsider == User(<<"a", "@", "g", ".", "c", "o">>)
LookAlike == User(<<"a", "@", "x">> \o ALLOWED_DOMAIN)
Nameless == User(<<>>)
Accounts == {Staff, Outsider, LookAlike, Nameless}

\* What the onAuthStateChanged callback handled last: nothing yet, or the
\* notification carrying u (an account or NoUser).
Nothing == [any |-> FALSE, user |-> NoUser]
Notified(u) == [any |-> TRUE, user |-> u]

\* draggingKey === null.
NoKey == ""

\* No drag is going on and nothing was changed (HillChart line 78, App.tsx
\* line 171).
DragIdle ==
    /\ draggingKey = NoKey
    /\ isModified = FALSE
    /\ pressed = NoKey
    /\ lastEvent = "none"
    /\ handled = 0
    /\ updates = <<>>

\* The chart is on screen: AuthenticatedApp (main.tsx) renders App only
\* when loading is false and user is set.
SignedIn ==
    /\ user = Staff
    /\ loading = FALSE
    /\ error = "null"
    /\ currentUser = Staff
    /\ pending = <<>>
    /\ signIn = [at |-> "idle", user |-> NoUser]
    /\ logOut = "idle"
    /\ delivered = Nothing

----------------------------------------------------------------------------
(* The render of one marker list.                                          *)

\* The chart's state before the first render.
ChartFresh ==
    /\ pc = "start"
    /\ labelPositions = <<>>
    /\ i = 1
    /\ locals = <<>>
    /\ labelMap = <<>>
    /\ drawn = <<>>
    /\ addresses = <<>>
    /\ allocated = 0
    /\ history = <<>>

\* The state before the first render of a marker list.
Mounted == ChartFresh /\ DragIdle /\ SignedIn

Init == epics \in Inputs /\ Mounted

\* Lines 139-183: labelData, sorted, the initial labelPositions.
Prepare ==
    /\ pc = "start"
    /\ labelPositions' = initialLabelPositions(epics)
    /\ addresses' = allocate(allocated, Len(epics))
    /\ allocated' = allocated + Len(epics)
    /\ history' = sharedObjects(history, addresses', labelPositions')
    /\ i' = 1
    /\ locals' = <<>>
    /\ pc' = "loop"
    /\ UNCHANGED <<epics, labelMap, drawn>>
    /\ UNCHANGED <<dragVars, authVars>>

\* Lines 220-440: one pass of the loop body, for index i.
PlaceLabel ==
    /\ pc = "loop"
    /\ i <= Len(labelPositions)
    /\ labelPositions' = [labelPositions EXCEPT ![i] = placed(labelPositions, i)]
    /\ history' = sharedObjects(history, addresses, labelPositions')
    /\ locals' = Append(locals, localsOf(labelPositions, i))
    /\ i' = i + 1
    /\ UNCHANGED <<epics, pc, labelMap, drawn, addresses, allocated>>
    /\ UNCHANGED <<dragVars, authVars>>

\* Lines 442-447: the loop is over, labelMap is built.
BuildMap ==
    /\ pc = "loop"
    /\ i > Len(labelPositions)
    /\ labelMap' = mapOf(labelPositions)
    /\ pc' = "done"
    /\ UNCHANGED <<epics, labelPositions, i, locals, drawn, addresses, allocated, history>>
    /\ UNCHANGED <<dragVars, authVars>>

\* Lines 449-620: the markers are drawn.
Draw ==
    /\ pc = "done"
    /\ drawn' = drawnOf(epics, labelMap)
    /\ pc' = "drawn"
    /\ UNCHANGED <<epics, labelPositions, i, locals, labelMap, addresses, allocated, history>>
    /\ UNCHANGED <<dragVars, authVars>>

Next == Prepare \/ PlaceLabel \/ BuildMap \/ Draw

Spec == Init /\ [][Next]_vars

\* The render of every pair of progress values.
InitCurve == epics \in CurvePairs /\ Mounted

SpecCurve == InitCurve /\ [][Next]_vars

\* The render runs to completion: it is synchronous code, so a step that
\* can be taken is taken.  This is weak fairness of Next, WF_vars(Next),
\* written out by its definition, []<>(~ENABLED <<Next>>_vars) or
\* []<><<Next>>_vars, with the enabling condition of Next stated from the
\* guards of its four actions: some action can act unless pc = "drawn".
RunsToCompletion == []<>(pc = "drawn") \/ []<><<Next>>_vars

SpecLive == Init /\ [][Next]_vars /\ RunsToCompletion

\* The parent supplies a marker list again (App.tsx: setEpics) and the
\* component renders again; what the last render left stays reachable.
Rerender ==
    /\ pc = "drawn"
    /\ Len(history) < MaxRenders - 1
    /\ history' = Append(history, [epics |-> epics, addresses |-> addresses,
                                    labelPositions |-> labelPositions])
    /\ epics' \in RenderInputs
    /\ pc' = "start"
    /\ UNCHANGED <<labelPositions, i, locals, labelMap, drawn, addresses, allocated>>
    /\ UNCHANGED <<dragVars, authVars>>

InitRenders == epics \in RenderInputs /\ Mounted

NextRenders == Next \/ Rerender

SpecRenders == InitRenders /\ [][NextRenders]_vars

\* Two renders to compare: lists of two markers "A" and "B", in either input
\* order, each at progress 25 or 30, and of three markers "A" at 25, "B" at
\* 30 and "C" at 35 in every input order; each title has one line or six.
TwinProgress == {25, 30}
TwinTitles == {Title(1, 1), Title(6, 10)}
TwinOrders ==
    {<<1, 2, 3>>, <<1, 3, 2>>, <<2, 1, 3>>, <<2, 3, 1>>, <<3, 1, 2>>, <<3, 2, 1>>}
TwinInputs ==
    {<<Epic(k1, x1, t1), Epic(3 - k1, x2, t2)>> :
        k1 \in 1..2, x1 \in TwinProgress, x2 \in TwinProgress,
        t1 \in TwinTitles, t2 \in TwinTitles}
    \cup {[n \in 1..3 |-> Epic(o[n], 20 + 5 * o[n], t[o[n]])] :
              o \in TwinOrders, t \in [1..3 -> TwinTitles]}

\* The parent supplies another marker list once (App.tsx: setEpics) and the
\* component renders a second time.
Resupply ==
    /\ pc = "drawn"
    /\ history = <<>>
    /\ history' = <<[epics |-> epics, addresses |-> addresses,
                     labelPositions |-> labelPositions]>>
    /\ epics' \in TwinInputs
    /\ pc' = "start"
    /\ UNCHANGED <<labelPositions, i, locals, labelMap, drawn, addresses, allocated>>
    /\ UNCHANGED <<dragVars, authVars>>

InitTwice == epics \in TwinInputs /\ Mounted

NextTwice == Next \/ Resupply

SpecTwice == InitTwice /\ [][NextTwice]_vars

\* Titles of 1..MaxWords words, each of 1, 8, 9, 18 or 19 letters, separated
\* by single spaces, and one marker at progress 30 with each of them.
MaxWords == 4
WordLengths == {1, 8, 9, WrapWidth, WrapWidth + 1}
Word(n) == [k \in 1..n |-> "x"]
RECURSIVE JoinWords(_)
JoinWords(ws) ==
    IF ws = <<>> THEN <<>>
    ELSE IF Len(ws) = 1 THEN ws[1]
    ELSE ws[1] \o <<" ">> \o JoinWords(Tail(ws))
WrapTitles ==
    UNION {{JoinWords([k \in 1..n |-> Word(ls[k])]) : ls \in [1..n -> WordLengths]} :
              n \in 1..MaxWords}
WrapInputs == {<<Epic(1, 30, t)>> : t \in WrapTitles}

InitWrap == epics \in WrapInputs /\ Mounted

SpecWrap == InitWrap /\ [][Next]_vars

----------------------------------------------------------------------------
(* Dragging a marker (HillChart lines 78-120, 519-524; App.tsx 318-343).   *)

\* Mutant of dragProgress: t is not clamped.
dragProgressUnclamped(svgPointX) ==
    LET hillWidth == HILL_WIDTH - 2 * MARGIN_X
    IN  ((svgPointX - MARGIN_X * Scale) * MaxProgress) \div (hillWidth * Scale)

\* Lines 97-99: t = (svgPoint.x - MARGIN_X) / hillWidth, clamped to [0, 1],
\* and x = t * 100; svgPointX is in units of 1/Scale.
dragProgress(svgPointX) ==
    LET hillWidth == HILL_WIDTH - 2 * MARGIN_X
        t == Max(0, Min(hillWidth * Scale, svgPointX - MARGIN_X * Scale))
    IN  (t * MaxProgress) \div (hillWidth * Scale)

\* Mutant of handleUpdateEpicX: every epic gets the new x.
handleUpdateEpicXAll(prev, key, x) ==
    [n \in 1..Len(prev) |-> [prev[n] EXCEPT !.x = x]]

\* handleUpdateEpicX (App.tsx line 319): the list setEpics installs.
handleUpdateEpicX(prev, key, x) ==
    [n \in 1..Len(prev) |-> IF prev[n].key = key THEN [prev[n] EXCEPT !.x = x] ELSE prev[n]]

\* handleRemoveEpic (App.tsx line 342): the list setEpics installs.
handleRemoveEpic(prev, key) == SelectSeq(prev, LAMBDA e : e.key # key)

\* The pointer positions of the mouse events, as svgPoint.x in units of
\* 1/Scale: left of the hill, progress 30, right of the hill.
MaxUpdates == 2
MaxEvents == 5
DragPositions == {-10 * Scale, 256 * Scale, 900 * Scale}
DragKeys == {KeyNames[1], KeyNames[2]}

\* The lists a drag starts from: "A" alone, "A" and "B", two markers that
\* share the key "A"; one-letter titles.
DragInputs ==
    {<<Epic(1, 25, Title(1, 1))>>,
     <<Epic(1, 25, Title(1, 1)), Epic(2, 30, Title(1, 1))>>,
     <<Epic(1, 25, Title(1, 1)), Epic(1, 30, Title(1, 1))>>}

\* onMouseDown of the <g> of the marker with key k (lines 519-524):
\* setDraggingKey(k); a changed state makes the component render again.
MouseDown(k) ==
    /\ pc = "drawn"
    /\ \E n \in 1..Len(drawn) : drawn[n].key = k
    /\ draggingKey' = k
    /\ pressed' = k
    /\ lastEvent' = "mousedown"
    /\ handled < MaxEvents
    /\ handled' = handled + 1
    /\ pc' = IF draggingKey = k THEN pc ELSE "start"
    /\ UNCHANGED <<epics, labelPositions, i, locals, labelMap, drawn, addresses,
                   allocated, history, isModified, updates, authVars>>

\* A mousemove on the window with the pointer at svgPointX; hasCTM tells
\* whether getScreenCTM returned a matrix.  handleMouseMove (lines 80-103)
\* is a listener only while draggingKey is set (lines 111-120); it calls
\* onUpdateEpicX, which is handleUpdateEpicX (App.tsx lines 318-321).
MouseMove(svgPointX, hasCTM) ==
    /\ pc = "drawn"
    /\ Len(updates) < MaxUpdates
    /\ lastEvent' = "mousemove"
    /\ handled < MaxEvents
    /\ handled' = handled + 1
    /\ IF draggingKey # NoKey /\ hasCTM
       THEN /\ updates' = Append(updates, [key |-> draggingKey,
                                           x |-> dragProgress(svgPointX)])
            /\ epics' = handleUpdateEpicX(epics, draggingKey, dragProgress(svgPointX))
            /\ isModified' = TRUE
            /\ pc' = "start"
       ELSE UNCHANGED <<updates, epics, isModified, pc>>
    /\ UNCHANGED <<labelPositions, i, locals, labelMap, drawn, addresses, allocated,
                   history, draggingKey, pressed, authVars>>

\* A mouseup on the window: handleMouseUp (lines 105-109) is a listener
\* only while draggingKey is set.
MouseUp ==
    /\ pc = "drawn"
    /\ lastEvent' = "mouseup"
    /\ handled < MaxEvents
    /\ handled' = handled + 1
    /\ pressed' = NoKey
    /\ draggingKey' = NoKey
    /\ pc' = IF draggingKey # NoKey THEN "start" ELSE pc
    /\ UNCHANGED <<epics, labelPositions, i, locals, labelMap, drawn, addresses,
                   allocated, history, isModified, updates, authVars>>

\* The remove button of the epic with key k, confirmed (App.tsx lines
\* 340-343, 742).
RemoveEpic(k) ==
    /\ pc = "drawn"
    /\ \E n \in 1..Len(epics) : epics[n].key = k
    /\ epics' = handleRemoveEpic(epics, k)
    /\ lastEvent' = "click"
    /\ handled < MaxEvents
    /\ handled' = handled + 1
    /\ pc' = "start"
    /\ UNCHANGED <<labelPositions, i, locals, labelMap, drawn, addresses, allocated,
                   history, draggingKey, isModified, pressed, updates, authVars>>

InitDrag == epics \in DragInputs /\ Mounted

NextDrag ==
    \/ Next
    \/ \E k \in DragKeys : MouseDown(k)
    \/ \E svgPointX \in DragPositions, hasCTM \in BOOLEAN : MouseMove(svgPointX, hasCTM)
    \/ MouseUp
    \/ \E k \in DragKeys : RemoveEpic(k)

SpecDrag == InitDrag /\ [][NextDrag]_vars

----------------------------------------------------------------------------
(* AuthProvider (HillChart.tsx lines 679-758).                             *)

\* String.prototype.endsWith.
endsWith(str, suffix) ==
    /\ Len(str) >= Len(suffix)
    /\ SubSeq(str, Len(str) - Len(suffix) + 1, Len(str)) = suffix

\* Mutant of emailAllowed: the "@" is not part of the suffix.
emailAllowedNoAt(email) == endsWith(email, ALLOWED_DOMAIN)

\* email.endsWith(`@${ALLOWED_DOMAIN}`) (lines 689, 714).
emailAllowed(email) == endsWith(email, <<"@">> \o ALLOWED_DOMAIN)

\* signOut(auth): the queue of notifications after it; the service tells
\* its listeners when the signed-in account changed.
afterSignOut(queue) == IF currentUser # NoUser THEN Append(queue, NoUser) ELSE queue

MaxPending == 2

\* The callback of onAuthStateChanged (lines 685-704) handles the oldest
\* notification.
AuthStateChanged ==
    /\ pending # <<>>
    /\ LET u == Head(pending)
       IN  /\ delivered' = Notified(u)
           /\ IF u.present
              THEN IF emailAllowed(u.email)
                   THEN /\ user' = u
                        /\ error' = "null"
                        /\ pending' = Tail(pending)
                        /\ UNCHANGED currentUser
                   ELSE /\ currentUser' = NoUser
                        /\ pending' = afterSignOut(Tail(pending))
                        /\ user' = NoUser
                        /\ error' = "restricted"
              ELSE /\ user' = NoUser
                   /\ pending' = Tail(pending)
                   /\ UNCHANGED <<error, currentUser>>
    /\ loading' = FALSE
    /\ UNCHANGED <<signIn, logOut, chartVars, dragVars>>

\* The account changes outside the provider: a stored session is
\* restored, another tab signs in or out, the session ends.
ExternalChange(u) ==
    /\ u # currentUser
    /\ Len(pending) < MaxPending
    /\ currentUser' = u
    /\ pending' = Append(pending, u)
    /\ delivered' = Nothing
    /\ UNCHANGED <<user, loading, error, signIn, logOut, chartVars, dragVars>>

\* signInWithGoogle up to the popup (lines 710-712).
SignInStart ==
    /\ signIn.at = "idle"
    /\ error' = "null"
    /\ signIn' = [at |-> "popup", user |-> NoUser]
    /\ delivered' = Nothing
    /\ UNCHANGED <<user, loading, currentUser, pending, logOut, chartVars, dragVars>>

\* signInWithPopup resolves with account u.
PopupResolves(u) ==
    /\ signIn.at = "popup"
    /\ Len(pending) < MaxPending
    /\ currentUser' = u
    /\ pending' = IF u # currentUser THEN Append(pending, u) ELSE pending
    /\ signIn' = [at |-> "resolved", user |-> u]
    /\ delivered' = Nothing
    /\ UNCHANGED <<user, loading, error, logOut, chartVars, dragVars>>

\* signInWithGoogle after the await of line 712: the check of lines
\* 713-716, up to the await of signOut.
SignInChecks ==
    /\ signIn.at = "resolved"
    /\ IF emailAllowed(signIn.user.email)
       THEN /\ signIn' = [at |-> "idle", user |-> NoUser]
            /\ UNCHANGED <<currentUser, pending>>
       ELSE /\ currentUser' = NoUser
            /\ pending' = afterSignOut(pending)
            /\ signIn' = [at |-> "signingOut", user |-> NoUser]
    /\ delivered' = Nothing
    /\ UNCHANGED <<user, loading, error, logOut, chartVars, dragVars>>

\* signInWithGoogle after the await of line 715: setError (line 716).
SignInRestricted ==
    /\ signIn.at = "signingOut"
    /\ error' = "restricted"
    /\ signIn' = [at |-> "idle", user |-> NoUser]
    /\ delivered' = Nothing
    /\ UNCHANGED <<user, loading, currentUser, pending, logOut, chartVars, dragVars>>

\* signInWithPopup rejects with the given code (lines 718-734).
SignInFails(code) ==
    /\ signIn.at = "popup"
    /\ error' = IF code = "auth/popup-closed-by-user" THEN error
                ELSE IF code = "auth/unauthorized-domain" THEN "unauthorized-domain"
                ELSE "failed"
    /\ signIn' = [at |-> "idle", user |-> NoUser]
    /\ delivered' = Nothing
    /\ UNCHANGED <<user, loading, currentUser, pending, logOut, chartVars, dragVars>>

\* logout up to the await of signOut (line 739).
LogoutStart ==
    /\ logOut = "idle"
    /\ currentUser' = NoUser
    /\ pending' = afterSignOut(pending)
    /\ logOut' = "signingOut"
    /\ delivered' = Nothing
    /\ UNCHANGED <<user, loading, error, signIn, chartVars, dragVars>>

\* logout after the await: setUser(null), setError(null) (lines 740-741).
LogoutDone ==
    /\ logOut = "signingOut"
    /\ user' = NoUser
    /\ error' = "null"
    /\ logOut' = "idle"
    /\ delivered' = Nothing
    /\ UNCHANGED <<loading, currentUser, pending, signIn, chartVars, dragVars>>

\* signOut rejects in logout (lines 742-746).
LogoutFails ==
    /\ logOut = "idle"
    /\ error' = "failed"
    /\ delivered' = Nothing
    /\ UNCHANGED <<user, loading, currentUser, pending, signIn, logOut, chartVars, dragVars>>

\* The provider mounts (lines 680-682): no user yet, loading; the service
\* holds whatever session was stored and will notify the callback of it.
InitAuth ==
    /\ epics = <<>>
    /\ ChartFresh
    /\ DragIdle
    /\ user = NoUser
    /\ loading = TRUE
    /\ error = "null"
    /\ currentUser \in Accounts \cup {NoUser}
    /\ pending = <<currentUser>>
    /\ signIn = [at |-> "idle", user |-> NoUser]
    /\ logOut = "idle"
    /\ delivered = Nothing

NextAuth ==
    \/ AuthStateChanged
    \/ \E u \in Accounts \cup {NoUser} : ExternalChange(u)
    \/ SignInStart
    \/ \E u \in Accounts : PopupResolves(u)
    \/ SignInChecks
    \/ SignInRestricted
    \/ \E code \in {"auth/popup-closed-by-user", "auth/unauthorized-domain", "other"} :
          SignInFails(code)
    \/ LogoutStart
    \/ LogoutDone
    \/ LogoutFails

SpecAuth == InitAuth /\ [][NextAuth]_vars

----------------------------------------------------------------------------
(* What the render draws from an entry of labelPositions (lines 494-516).  *)

\* labelX (line 495): the horizontal centre of the label box.
labelXOf(l) == IF l.isAngled THEN l.svgX + l.offsetX ELSE l.svgX

\* boxX (line 496) and the other edges of the drawn rect (lines 551-555).
boxLeft(l) == labelXOf(l) - l.boxWidth \div 2
boxRight(l) == boxLeft(l) + l.boxWidth
boxTop(l) == l.boxY
boxBottom(l) == l.boxY + l.boxHeight

\* The connector line is drawn (line 536).
connectorDrawn(l) == ~l.isAtClosestPosition

----------------------------------------------------------------------------
(* Vocabulary of the properties.                                           *)

\* The indices whose pass of the loop body is over.
Processed == 1..Len(locals)

\* The label at index j was accepted by the validity check (checkOverlaps
\* returned false for its final position): the code's local `moved`.
Accepted(j) == locals[j].moved

\* The input keys are pairwise distinct.
DistinctKeys ==
    \A a, b \in 1..Len(epics) : epics[a].key = epics[b].key => a = b

\* The gap between a box and a point on one axis (0 when the point is
\* between the two edges).
AxisGap(lo, hi, p) == IF p < lo THEN lo - p ELSE IF p > hi THEN p - hi ELSE 0

\* The closest point of l's box is at least d units from the centre of m's circle.
ClearOfDot(l, m, d) ==
    LET gx == AxisGap(boxLeft(l), boxRight(l), m.svgX)
        gy == AxisGap(boxTop(l), boxBottom(l), m.svgY)
    IN  \/ gx >= d * Scale
        \/ gy >= d * Scale
        \/ gx * gx + gy * gy >= (d * Scale) * (d * Scale)

----------------------------------------------------------------------------
(* C1 *)

\* C1: for a marker list with pairwise distinct keys the finished layout
\* holds exactly one placement per input key: as many entries as markers,
\* every key in exactly one entry, the map's keys are the input keys and each
\* key maps to the entry of its own marker; zero markers give an empty map.
C1_OnePlacementPerKey ==
    /\ (pc = "done" /\ DistinctKeys) =>
          /\ Len(labelPositions) = Len(epics)
          /\ DOMAIN labelMap = {epics[k].key : k \in 1..Len(epics)}
          /\ Cardinality(DOMAIN labelMap) = Len(epics)
          /\ \A k \in 1..Len(epics) :
                /\ Cardinality({j \in 1..Len(labelPositions) :
                                   labelPositions[j].epic.key = epics[k].key}) = 1
                /\ labelMap[epics[k].key].epic = epics[k]
          /\ (Len(epics) = 0 => labelMap = <<>>)

\* Five markers all on the crest, none of which found a valid position,
\* each with its own placement in the finished map.
C1_Witness ==
    /\ pc = "done"
    /\ Len(epics) = 5
    /\ DistinctKeys
    /\ \A k \in 1..5 : epics[k].x = 50
    /\ \A j \in Processed : ~Accepted(j)
    /\ Cardinality(DOMAIN labelMap) = 5

----------------------------------------------------------------------------
(* C2 *)

\* C2: any two labels that were both accepted by the validity check have
\* boxes that are horizontally disjoint or at least MIN_SPACING = 8 units
\* apart vertically.
C2_AcceptedLabelsDisjoint ==
    \A a, b \in Processed :
        (a < b /\ Accepted(a) /\ Accepted(b)) =>
            LET la == labelPositions[a]
                lb == labelPositions[b]
            IN  \/ boxRight(la) <= boxLeft(lb)
                \/ boxRight(lb) <= boxLeft(la)
                \/ boxTop(lb) - boxBottom(la) >= 8 * Scale
                \/ boxTop(la) - boxBottom(lb) >= 8 * Scale

\* Two accepted labels whose boxes share a horizontal stretch and are less
\* than one search step more than MIN_SPACING apart.
C2_Witness ==
    /\ pc = "done"
    /\ \E a, b \in Processed :
          /\ a < b /\ Accepted(a) /\ Accepted(b)
          /\ boxRight(labelPositions[a]) > boxLeft(labelPositions[b])
          /\ boxRight(labelPositions[b]) > boxLeft(labelPositions[a])
          /\ boxTop(labelPositions[b]) - boxBottom(labelPositions[a]) >= 8 * Scale
          /\ boxTop(labelPositions[b]) - boxBottom(labelPositions[a]) < 13 * Scale

----------------------------------------------------------------------------
(* C3 *)

\* The last-resort clamp moved the label at index j.
Clamped(j) == locals[j].boxYBeforeClamp # labelPositions[j].boxY

\* C3: a single marker with a one-line text, at any integer progress, is
\* placed on a vertical side by the validity check (never by the last-resort
\* clamp), and its box stays DOT_RADIUS + MIN_SPACING = 18 units clear of its
\* own circle.
C3_SingleMarkerAccepted ==
    (Len(epics) = 1 /\ Len(locals) = 1 /\ Len(labelPositions[1].textLines) = 1) =>
        /\ Accepted(1)
        /\ ~Clamped(1)
        /\ ~labelPositions[1].isAngled
        /\ ClearOfDot(labelPositions[1], labelPositions[1], 18)

----------------------------------------------------------------------------
(* C4 *)

\* C4: a label accepted by the validity check keeps its box at least
\* DOT_RADIUS + MIN_SPACING = 18 units (closest point to centre) from the
\* circle of every marker: its own, those placed before it and those placed
\* after it.
C4_AcceptedLabelsClearOfDots ==
    \A a \in Processed :
        Accepted(a) =>
            \A b \in 1..Len(labelPositions) :
                ClearOfDot(labelPositions[a], labelPositions[b], DOT_RADIUS + MIN_SPACING)

\* An accepted label above or below which the circle of a marker processed
\* later sits, less than one search step beyond the required clearance.
C4_Witness ==
    /\ pc = "done"
    /\ \E a, b \in Processed :
          /\ a < b
          /\ Accepted(a)
          /\ labelPositions[b].svgX >= boxLeft(labelPositions[a])
          /\ labelPositions[b].svgX <= boxRight(labelPositions[a])
          /\ labelPositions[b].svgX # labelPositions[a].svgX
          /\ ~ClearOfDot(labelPositions[a], labelPositions[b],
                         DOT_RADIUS + MIN_SPACING + stepSize)

----------------------------------------------------------------------------
(* C5 *)

\* C5: every label box of the layout lies inside the canvas: left edge >= 0,
\* right edge <= W = 800, top edge >= 0, bottom edge <= H = 400.
C5_BoxesInsideCanvas ==
    \A j \in Processed :
        /\ boxLeft(labelPositions[j]) >= 0
        /\ boxRight(labelPositions[j]) <= HILL_WIDTH * Scale
        /\ boxTop(labelPositions[j]) >= 0
        /\ boxBottom(labelPositions[j]) <= HILL_HEIGHT * Scale

----------------------------------------------------------------------------
(* C6 *)

\* C6: every placement, clamped ones included, whose box is at most 270
\* units high lies in the vertical band: boxY >= MY + 5 = 45 and
\* boxY + boxHeight <= H - MY - BAND - 5 = 315; and every angled placement
\* lies horizontally inside [MX, W - MX] = [40, 760].
C6_PlacementsInsideBand ==
    \A j \in Processed :
        LET l == labelPositions[j]
        IN  /\ l.boxHeight <= 270 * Scale =>
                  /\ boxTop(l) >= 45 * Scale
                  /\ boxBottom(l) <= 315 * Scale
            /\ l.isAngled =>
                  /\ boxLeft(l) >= 40 * Scale
                  /\ boxRight(l) <= 760 * Scale

\* A layout in which one label was moved into the band by the clamp and
\* another one was placed on a diagonal.
C6_Witness ==
    /\ pc = "done"
    /\ \E j \in Processed : ~Accepted(j) /\ Clamped(j)
    /\ \E j \in Processed : labelPositions[j].isAngled

----------------------------------------------------------------------------
(* C7 *)

\* The layout of the single marker {key: "A", progress: 50, text: "x"} is over.
CrestMarkerDone ==
    /\ pc = "done"
    /\ epics = <<[key |-> "A", x |-> 50, title |-> <<"x">>]>>

----------------------------------------------------------------------------
(* C8 *)

\* The default box top of l on the side it ended on.
DefaultBoxYOnOwnSide(l) ==
    IF l.isBelowDot THEN l.svgY + 20 * Scale + (Len(l.textLines) - 1) * 7 * Scale - 16 * Scale
    ELSE l.svgY - 20 * Scale - (Len(l.textLines) - 1) * 7 * Scale - 16 * Scale

\* C8: isDefault is true only for a label that the validity check accepted
\* at its default position without movement; a label that ended at a
\* last-resort clamped position has isDefault = false and a connector.
C8_DefaultOnlyIfAcceptedUnmoved ==
    \A j \in Processed :
        LET l == labelPositions[j]
        IN  /\ l.isAtClosestPosition =>
                  /\ Accepted(j)
                  /\ ~l.isAngled
                  /\ l.boxY = DefaultBoxYOnOwnSide(l)
            /\ (~Accepted(j) \/ Clamped(j)) =>
                  /\ ~l.isAtClosestPosition
                  /\ connectorDrawn(l)

----------------------------------------------------------------------------
(* C9 *)

\* The label at index j ended on the vertical side it did not prefer.
OnOppositeSide(j) ==
    /\ ~labelPositions[j].isAngled
    /\ labelPositions[j].isBelowDot # locals[j].preferBelow

\* The default box of the side index j prefers lies in the band 45..315.
PreferredDefaultInBand(j) ==
    LET l == labelPositions[j]
        extra == (Len(l.textLines) - 1) * 7 * Scale
        top == IF locals[j].preferBelow THEN l.svgY + 20 * Scale + extra - 16 * Scale
               ELSE l.svgY - 20 * Scale - extra - 16 * Scale
    IN  top >= 45 * Scale /\ top + l.boxHeight <= 315 * Scale

\* C9 as stated, for the placements the validity check accepted (no clamped
\* label is involved): a label that ends on the side opposite to its
\* preferred side, or angled, has isDefault = false and a connector.
C9_OppositeOrAngledNotDefault ==
    \A j \in Processed :
        (Accepted(j) /\ (OnOppositeSide(j) \/ labelPositions[j].isAngled)) =>
            /\ ~labelPositions[j].isAtClosestPosition
            /\ connectorDrawn(labelPositions[j])

\* C9 as amended: an angled label has isDefault = false and a connector; so
\* has a label on the opposite side whenever the preferred side's default
\* box was inside the band (the search on the preferred side ran); a label
\* accepted at the opposite side's default position after the preferred
\* side's default box was outside the band has isDefault = true.
C9_AngledOrSearchedNotDefault ==
    \A j \in Processed :
        LET l == labelPositions[j]
        IN  /\ l.isAngled => ~l.isAtClosestPosition /\ connectorDrawn(l)
            /\ (OnOppositeSide(j) /\ PreferredDefaultInBand(j)) =>
                  ~l.isAtClosestPosition /\ connectorDrawn(l)
            /\ (OnOppositeSide(j) /\ ~PreferredDefaultInBand(j) /\ Accepted(j)
                  /\ l.boxY = DefaultBoxYOnOwnSide(l)) =>
                  l.isAtClosestPosition

\* A layout with an angled label and with a label accepted on the opposite
\* side after the search on its preferred side had failed.
C9_Witness ==
    /\ pc = "done"
    /\ \E j \in Processed : labelPositions[j].isAngled
    /\ \E j \in Processed :
          OnOppositeSide(j) /\ PreferredDefaultInBand(j) /\ Accepted(j)

----------------------------------------------------------------------------
(* C10 *)

\* The layout of two markers at progress 49 and 51 is over, and both titles
\* wrap to at least two lines.
ClosePairDone ==
    /\ pc = "done"
    /\ Len(epics) = 2
    /\ {epics[1].x, epics[2].x} = {49, 51}
    /\ \A j \in 1..2 : Len(labelPositions[j].textLines) >= 2

\* The label at index j is not where its preferred side's default puts it.
Displaced(j) ==
    LET l == labelPositions[j]
    IN  \/ l.isAngled
        \/ l.isBelowDot # locals[j].preferBelow
        \/ l.boxY # (IF locals[j].preferBelow THEN initialBoxYBelow(l)
                     ELSE initialBoxYAbove(l))

\* C10 as stated: of two markers at progress 49 and 51 whose titles wrap to
\* two or more lines, the one processed second (progress 51) is displaced
\* and has isDefault = false, so its connector is drawn.
C10_SecondOfClosePairDisplaced ==
    ClosePairDone =>
        /\ labelPositions[2].epic.x = 51
        /\ Displaced(2)
        /\ ~labelPositions[2].isAtClosestPosition
        /\ connectorDrawn(labelPositions[2])

\* C10 as amended: the same, for titles that wrap to between two and nine
\* lines each.
C10_SecondOfClosePairDisplacedUpTo9 ==
    (ClosePairDone /\ \A j \in 1..2 : Len(labelPositions[j].textLines) <= 9) =>
        /\ labelPositions[2].epic.x = 51
        /\ Displaced(2)
        /\ ~labelPositions[2].isAtClosestPosition
        /\ connectorDrawn(labelPositions[2])

\* Both titles wrap to two lines and the second label was stepped down by
\* the search on the side opposite to the one it preferred.
C10_Witness ==
    /\ ClosePairDone
    /\ \A j \in 1..2 : Len(labelPositions[j].textLines) = 2
    /\ Accepted(2)
    /\ locals[2].attempts > 0
    /\ OnOppositeSide(2)
    /\ ~labelPositions[2].isAtClosestPosition

----------------------------------------------------------------------------
(* C11 *)

\* The renders whose layout is over: the earlier ones and, once labelMap is
\* built, the current one.
Finished ==
    IF pc \in {"done", "drawn"}
    THEN Append(history, [epics |-> epics, addresses |-> addresses,
                          labelPositions |-> labelPositions])
    ELSE history

\* The placement a finished render gave to key: position, side, angled flag,
\* offsets and isAtClosestPosition.
PlacementOf(r, key) ==
    LET l == mapOf(r.labelPositions)[key]
    IN  [labelY |-> l.labelY, boxY |-> l.boxY, isBelowDot |-> l.isBelowDot,
         isAngled |-> l.isAngled, offsetX |-> l.offsetX, offsetY |-> l.offsetY,
         isAtClosestPosition |-> l.isAtClosestPosition]

\* C11: any two finished renders of the same marker list (same markers in
\* the same order) hold the same placement for every key, whatever was
\* rendered in between.
C11_SameInputSamePlacements ==
    \A a, b \in 1..Len(Finished) :
        Finished[a].epics = Finished[b].epics =>
            /\ Len(Finished[a].labelPositions) = Len(Finished[b].labelPositions)
            /\ \A k \in 1..Len(Finished[a].epics) :
                  PlacementOf(Finished[a], Finished[a].epics[k].key)
                    = PlacementOf(Finished[b], Finished[a].epics[k].key)

\* Marker "A" was laid out alone, then after "B", where it ended on a
\* diagonal, then alone again, where it is on a vertical side.
C11_Witness ==
    /\ pc = "drawn"
    /\ Len(history) = 2
    /\ Len(epics) = 1
    /\ history[1].epics = epics
    /\ Len(history[2].epics) = 2
    /\ history[2].epics[2] = epics[1]
    /\ PlacementOf(history[2], "A").isAngled
    /\ ~labelPositions[1].isAngled

----------------------------------------------------------------------------
(* C12 *)

\* The objects of the earlier renders.
EarlierAddresses ==
    UNION {{history[h].addresses[k] : k \in 1..Len(history[h].addresses)} :
              h \in 1..Len(history)}

\* C12: no step of a layout pass changes the caller's marker list (only the
\* caller's re-supply between two renders does), no step changes an object
\* an earlier render left, and the objects a pass writes to are new: none
\* of them is an object of an earlier render.
C12_InputAndEarlierObjectsUntouched ==
    [][/\ pc # "drawn" => epics' = epics
       /\ \A h \in 1..Len(history) : history'[h] = history[h]
       /\ pc = "start" =>
             /\ \A k \in 1..Len(addresses') : addresses'[k] \notin EarlierAddresses
             /\ \A k, m \in 1..Len(addresses') : addresses'[k] = addresses'[m] => k = m
       /\ pc = "loop" => addresses' = addresses]_vars

\* The third render is writing to its second object while the two earlier
\* renders' objects, two each, are still held.
C12_Witness ==
    /\ Len(history) = 2
    /\ \A h \in 1..2 : Len(history[h].addresses) = 2
    /\ pc = "loop"
    /\ Len(epics) = 2
    /\ Len(locals) = 1

----------------------------------------------------------------------------
(* C13 *)

\* C13: a marker whose title is the empty string gets exactly one, empty,
\* line and a box 1 * 14 + 2 * 4 = 22 units high and 2 * 6 = 12 units wide;
\* its layout runs to the end and it is drawn like any other marker.
C13_EmptyTextOneLineBox ==
    /\ \A j \in 1..Len(labelPositions) :
          labelPositions[j].epic.title = <<>> =>
              /\ labelPositions[j].textLines = << <<>> >>
              /\ labelPositions[j].boxHeight = 22 * Scale
              /\ labelPositions[j].boxWidth = 12 * Scale
    /\ pc = "drawn" =>
          \A k \in 1..Len(epics) :
              epics[k].title = <<>> =>
                  /\ epics[k].key \in DOMAIN labelMap
                  /\ boxBottom(labelMap[epics[k].key]) - boxTop(labelMap[epics[k].key])
                        = 22 * Scale
                  /\ drawn[k].key = epics[k].key

\* Two markers were drawn, the one processed second with an empty title and
\* a label the validity check accepted.
C13_Witness ==
    /\ pc = "drawn"
    /\ Len(epics) = 2
    /\ labelPositions[2].epic.title = <<>>
    /\ labelPositions[1].epic.title # <<>>
    /\ Accepted(2)

----------------------------------------------------------------------------
(* C14 *)

----------------------------------------------------------------------------
(* C15 *)

\* C15: of two markers of one render, the one with the smaller or equal
\* progress has the smaller or equal canvas x.
C15_CanvasXMonotone ==
    \A a, b \in 1..Len(labelPositions) :
        labelPositions[a].epic.x <= labelPositions[b].epic.x =>
            labelPositions[a].svgX <= labelPositions[b].svgX

\* Two markers one progress unit apart, the later one of the list first on
\* the canvas.
C15_Witness ==
    /\ pc = "drawn"
    /\ Len(epics) = 2
    /\ epics[1].x = epics[2].x + 1
    /\ labelPositions[1].epic = epics[2]
    /\ labelPositions[1].svgX < labelPositions[2].svgX

----------------------------------------------------------------------------
(* C16 *)

\* C16: every drawn marker has exactly one of the four phases: UPHILL for
\* progress < 25, CREST for 25 <= progress < 50, DOWNHILL for 50 <=
\* progress < 80, DONE for progress >= 80; so 25 is CREST, 50 is DOWNHILL
\* and 80 is DONE.
C16_PhaseIntervals ==
    \A k \in 1..Len(drawn) :
        LET x == drawn[k].x
            phase == drawn[k].phase
        IN  /\ phase \in {"UPHILL", "CREST", "DOWNHILL", "DONE"}
            /\ phase = "UPHILL" <=> x < 25
            /\ phase = "CREST" <=> (25 <= x /\ x < 50)
            /\ phase = "DOWNHILL" <=> (50 <= x /\ x < 80)
            /\ phase = "DONE" <=> x >= 80
            /\ x = 25 => phase = "CREST"
            /\ x = 50 => phase = "DOWNHILL"
            /\ x = 80 => phase = "DONE"

\* Markers on two boundary values were drawn with the upper interval's phase.
C16_Witness ==
    /\ pc = "drawn"
    /\ Len(drawn) = 2
    /\ \E a, b \in {25, 50, 80} : a # b /\ drawn[1].x = a /\ drawn[2].x = b
    /\ \A k \in 1..2 : drawn[k].phase # "UPHILL"

----------------------------------------------------------------------------
(* C17 *)

\* extra = (lineCount - 1) * (lineHeight / 2) = 7 * (lineCount - 1).
Extra(l) == (Len(l.textLines) - 1) * 7 * Scale

\* C17: the default ABOVE box of every marker (the box each entry starts
\* with, and the box a call of tryPosition for ABOVE leaves when it returns
\* without moving) is centred on the anchor x and has its bottom edge
\* 20 + extra units above the anchor y; the default BELOW box (left by a
\* call of tryPosition for BELOW that returns without moving) has its top
\* edge 20 + extra units below the anchor y.
C17_DefaultBoxes20FromAnchor ==
    /\ pc = "loop" =>
          \A j \in (Len(locals) + 1)..Len(labelPositions) :
              LET l == labelPositions[j]
              IN  /\ labelXOf(l) = l.svgX
                  /\ boxBottom(l) = l.svgY - 20 * Scale - Extra(l)
    /\ \A j \in Processed :
          \A r \in 1..Len(locals[j].results) :
              LET l == labelPositions[j]
                  res == locals[j].results[r]
              IN  (~res.moved /\ res.attempts = 0) =>
                      IF res.isBelowDot
                      THEN res.boxY = l.svgY + 20 * Scale + Extra(l)
                      ELSE res.boxY + l.boxHeight = l.svgY - 20 * Scale - Extra(l)

----------------------------------------------------------------------------
(* C18 *)

\* A box with top edge `top` and height h lies in the band 45..315.
InBand(top, h) == top >= 45 * Scale /\ top + h <= 315 * Scale

\* The label at index j with its box moved: top edge at `top`, centre dx
\* units right of the anchor (dx = 0: a vertical position).
BoxAt(j, top, dx) ==
    [labelPositions[j] EXCEPT !.boxY = top, !.isAngled = (dx # 0), !.offsetX = dx]

\* Two boxes are horizontally disjoint or at least 8 units apart vertically.
Apart(la, lb) ==
    \/ boxRight(la) <= boxLeft(lb)
    \/ boxRight(lb) <= boxLeft(la)
    \/ boxTop(lb) - boxBottom(la) >= 8 * Scale
    \/ boxTop(la) - boxBottom(lb) >= 8 * Scale

\* The validity of a candidate position of the label at index j: in the
\* band, when horizontally offset inside [40, 760], 18 units clear of every
\* circle and apart from the box of every label placed before it.
Valid(j, top, dx) ==
    LET c == BoxAt(j, top, dx)
    IN  /\ InBand(top, c.boxHeight)
        /\ dx # 0 => boxLeft(c) >= 40 * Scale /\ boxRight(c) <= 760 * Scale
        /\ \A m \in 1..Len(labelPositions) : ClearOfDot(c, labelPositions[m], 18)
        /\ \A a \in 1..(j - 1) : Apart(c, labelPositions[a])

\* The top edge of the default box of index j on a side, and of that box
\* displaced by k steps of 5 units away from the anchor.
DefaultTop(j, below) ==
    LET l == labelPositions[j]
    IN  IF below THEN l.svgY + 20 * Scale + Extra(l) - 16 * Scale
        ELSE l.svgY - 20 * Scale - Extra(l) - 16 * Scale
StepTop(j, below, k) ==
    IF below THEN DefaultTop(j, below) + 5 * k * Scale
    ELSE DefaultTop(j, below) - 5 * k * Scale

\* No box in the band is more than (315 - 45) / 5 = 54 steps from another.
BandSteps == (315 - 45) \div 5

\* The steps k >= 0 at which the side has a valid position.
ValidSteps(j, below) == {k \in 0..BandSteps : Valid(j, StepTop(j, below, k), 0)}

\* The stage of a vertical side yields a position: the side's default box
\* lies in the band and the default box or one of its displacements is
\* valid.
SideYields(j, below) ==
    /\ InBand(DefaultTop(j, below), labelPositions[j].boxHeight)
    /\ ValidSteps(j, below) # {}

\* The position the stage of a side yields: the valid step closest to the anchor.
SideTop(j, below) ==
    StepTop(j, below, CHOOSE k \in ValidSteps(j, below) :
                          \A m \in ValidSteps(j, below) : k <= m)

\* The four diagonals in their order: top-right, top-left, bottom-right,
\* bottom-left; the centre offset and the top edge of the box of each.
DiagonalDx(j, q) ==
    LET d == labelPositions[j].boxWidth \div 2 + 15 * Scale
    IN  IF q \in {1, 3} THEN d ELSE -d
DiagonalDy(j, q) ==
    LET d == labelPositions[j].boxHeight \div 2 + 10 * Scale
    IN  IF q \in {1, 2} THEN -d ELSE d
DiagonalTop(j, q) == labelPositions[j].svgY + DiagonalDy(j, q) - 16 * Scale
ValidDiagonals(j) == {q \in 1..4 : Valid(j, DiagonalTop(j, q), DiagonalDx(j, q))}

\* The label at index j stands where the stage of the given side yields.
PlacedOnSide(j, below) ==
    /\ Accepted(j)
    /\ ~labelPositions[j].isAngled
    /\ labelPositions[j].isBelowDot = below
    /\ labelPositions[j].boxY = SideTop(j, below)

\* The label at index j stands on diagonal q.
PlacedOnDiagonal(j, q) ==
    /\ Accepted(j)
    /\ labelPositions[j].isAngled
    /\ labelPositions[j].offsetX = DiagonalDx(j, q)
    /\ labelPositions[j].offsetY = DiagonalDy(j, q)
    /\ labelPositions[j].boxY = DiagonalTop(j, q)

\* The index whose pass of the loop body has just ended.  The entries before
\* it do not change any more, so what holds of an index in this state holds
\* of it in every later state of the render.
JustPlaced == IF pc = "loop" /\ Len(locals) > 0 THEN {Len(locals)} ELSE {}

----------------------------------------------------------------------------
(* C19 *)

\* The markers processed before index j whose canvas x is less than 100
\* units from that of j, and those of them whose label is above (below).
NearbyBefore(j) ==
    {a \in 1..(j - 1) :
        /\ labelPositions[a].svgX - labelPositions[j].svgX < 100 * Scale
        /\ labelPositions[j].svgX - labelPositions[a].svgX < 100 * Scale}
NearbyAbove(j) == {a \in NearbyBefore(j) : ~labelPositions[a].isBelowDot}
NearbyBelow(j) == {a \in NearbyBefore(j) : labelPositions[a].isBelowDot}

\* The side the first call of tryPosition for index j was made for.
TriedFirstBelow(j) == locals[j].results[1].isBelowDot

\* C19: BELOW is tried first for the marker at index j exactly when, of the
\* markers processed before it and less than 100 units from it in canvas x,
\* strictly more have their label above than below; on a tie, and with no
\* such marker (so for the first one processed), ABOVE is tried first.
C19_BelowFirstIffMoreNearbyAbove ==
    \A j \in Processed :
        /\ TriedFirstBelow(j) <=>
              Cardinality(NearbyAbove(j)) > Cardinality(NearbyBelow(j))
        /\ Cardinality(NearbyAbove(j)) = Cardinality(NearbyBelow(j)) => ~TriedFirstBelow(j)
        /\ NearbyBefore(j) = {} => ~TriedFirstBelow(j)
        /\ j = 1 => ~TriedFirstBelow(j)

\* Three markers: the second tried BELOW first after the first one nearby
\* went above, the third tried ABOVE first on a tie of one nearby label above
\* and one below.
C19_Witness ==
    /\ Len(locals) = 3
    /\ ~TriedFirstBelow(1)
    /\ TriedFirstBelow(2)
    /\ NearbyAbove(3) = {1}
    /\ NearbyBelow(3) = {2}
    /\ ~TriedFirstBelow(3)

----------------------------------------------------------------------------
(* C20 *)

\* The displacements k >= 1 of the side's default box that are valid.
ValidDisplacements(j, below) ==
    {k \in 1..maxAttempts : Valid(j, StepTop(j, below, k), 0)}

\* The default box of the side lies in the band and is not valid.
DefaultInBandInvalid(j, below) ==
    /\ InBand(DefaultTop(j, below), labelPositions[j].boxHeight)
    /\ ~Valid(j, DefaultTop(j, below), 0)

\* C20: when tryPosition is called for a side whose default box is in the
\* band but not valid, it succeeds exactly when some displacement of that
\* box by 5 * k units away from the anchor, k >= 1, is valid (and so in the
\* band), and it then leaves the box at the smallest such k.
C20_SearchTakesSmallestValidStep ==
    \A j \in JustPlaced :
        \A r \in 1..Len(locals[j].results) :
            LET res == locals[j].results[r]
                ks == ValidDisplacements(j, res.isBelowDot)
            IN  DefaultInBandInvalid(j, res.isBelowDot) =>
                    /\ res.moved
                    /\ res.success <=> ks # {}
                    /\ res.success =>
                          \E k \in ks :
                              /\ \A m \in ks : k <= m
                              /\ res.boxY = StepTop(j, res.isBelowDot, k)
                              /\ res.attempts = k

\* For the label just placed the search failed on the side tried first,
\* whose default box was in the band, and succeeded on the other side at
\* the third step or later.
C20_Witness ==
    /\ JustPlaced # {}
    /\ \E j \in JustPlaced :
          /\ Len(locals[j].results) = 2
          /\ DefaultInBandInvalid(j, locals[j].results[1].isBelowDot)
          /\ ~locals[j].results[1].success
          /\ locals[j].results[1].attempts > 0
          /\ DefaultInBandInvalid(j, locals[j].results[2].isBelowDot)
          /\ locals[j].results[2].success
          /\ locals[j].results[2].attempts >= 3
          /\ labelPositions[j].boxY = locals[j].results[2].boxY

----------------------------------------------------------------------------
(* C21 *)

\* The diagonal stage was reached for the label at index j: neither side
\* gave a position.
DiagonalsTried(j) ==
    /\ Len(locals[j].results) = 2
    /\ \A r \in 1..2 : ~locals[j].results[r].success

\* Centre of the box of diagonal candidate q of the label at index j, as
\* tryAngledPosition computes the box and the render draws it.
CandidateCentreX(j, q) ==
    labelPositions[j].svgX + angleOffsets(labelPositions[j])[q].x
CandidateCentreY(j, q) ==
    angledBoxY(labelPositions[j], angleOffsets(labelPositions[j])[q])
        + labelPositions[j].boxHeight \div 2

\* C21: each of the four diagonal candidates (top-right, top-left,
\* bottom-right, bottom-left) has its box centre displaced from the anchor
\* by boxWidth/2 + 15 horizontally (to the right for the right-hand ones,
\* to the left for the others) and by boxHeight/2 + 10 vertically (upwards
\* for the top ones, downwards for the bottom ones); a label placed on a
\* diagonal is drawn with that centre.
C21_DiagonalCentreDisplacement ==
    \A j \in Processed :
        LET l == labelPositions[j]
        IN  /\ DiagonalsTried(j) =>
                  \A q \in 1..4 :
                      /\ CandidateCentreX(j, q) - l.svgX = DiagonalDx(j, q)
                      /\ CandidateCentreY(j, q) - l.svgY = DiagonalDy(j, q)
            /\ l.isAngled =>
                  /\ labelXOf(l) = CandidateCentreX(j, locals[j].angle)
                  /\ boxTop(l) + l.boxHeight \div 2
                        = CandidateCentreY(j, locals[j].angle)

\* What the code does instead: the vertical offset is applied to the first
\* text baseline, 16 units below the box top, so the centre of a top
\* candidate is 26 units above the anchor whatever the box height and
\* that of a bottom candidate boxHeight - 6 units below it.
C21_DiagonalBaselineDisplacement ==
    \A j \in Processed :
        DiagonalsTried(j) =>
            \A q \in 1..4 :
                /\ CandidateCentreX(j, q) - labelPositions[j].svgX = DiagonalDx(j, q)
                /\ CandidateCentreY(j, q) - labelPositions[j].svgY
                      = IF q \in {1, 2} THEN -(26 * Scale)
                        ELSE labelPositions[j].boxHeight - 6 * Scale

----------------------------------------------------------------------------
(* C22 *)

\* The second render's list is the first render's with other titles at
\* most: same length, same keys and progress values in the same order.
Retitled ==
    /\ Len(history) = 1
    /\ Len(history[1].epics) = Len(epics)
    /\ \A n \in 1..Len(epics) :
          /\ history[1].epics[n].key = epics[n].key
          /\ history[1].epics[n].x = epics[n].x

\* The indices, in processing order, whose marker has another title in the
\* second render than in the first.
RetitledAt ==
    {j \in 1..Len(labelPositions) :
        history[1].labelPositions[j].epic.title # labelPositions[j].epic.title}

\* C22: the placement of a marker depends only on the labels of the
\* markers processed before it.  When a render is repeated with other
\* titles for some markers, every marker processed before the first
\* retitled one gets the placement it had; and an accepted label stays
\* clear of the circles of the markers processed after it as well as of
\* those processed before it.
C22_LaterTextsDoNotMatter ==
    /\ (Retitled /\ pc \in {"done", "drawn"}) =>
          \A j \in 1..Len(labelPositions) :
              (\A r \in RetitledAt : j < r) =>
                  labelPositions[j] = history[1].labelPositions[j]
    /\ \A a \in Processed :
          Accepted(a) =>
              \A b \in 1..Len(labelPositions) :
                  b # a =>
                      ClearOfDot(labelPositions[a], labelPositions[b],
                                 DOT_RADIUS + MIN_SPACING)

\* The marker processed second of two got a six-line title instead of a
\* one-line title and is placed elsewhere than before, the one processed
\* first is where it was, and its accepted box is within one search step
\* of the clearance of the second marker's circle.
C22_Witness ==
    /\ Retitled
    /\ pc = "done"
    /\ Len(labelPositions) = 2
    /\ RetitledAt = {2}
    /\ Len(history[1].labelPositions[2].textLines) = 1
    /\ Len(labelPositions[2].textLines) = 6
    /\ labelPositions[2].boxY # history[1].labelPositions[2].boxY
    /\ labelPositions[1] = history[1].labelPositions[1]
    /\ Accepted(1)
    /\ ~ClearOfDot(labelPositions[1], labelPositions[2],
                   DOT_RADIUS + MIN_SPACING + stepSize)

----------------------------------------------------------------------------
(* C23 *)

\* The place in the input list of the marker processed at index j (for
\* lists with pairwise distinct keys).
InputIndex(j) == CHOOSE n \in 1..Len(epics) : epics[n].key = labelPositions[j].epic.key

\* C23: markers are processed in ascending order of canvas x, and markers
\* with the same canvas x in input order; so of two markers with the same
\* progress the one that is earlier in the input is placed first, and the
\* later one, when accepted, is clear of the earlier one's label.
C23_AscendingXTiesInInputOrder ==
    (pc # "start" /\ DistinctKeys) =>
        /\ \A a, b \in 1..Len(labelPositions) :
              a < b =>
                  /\ labelPositions[a].svgX <= labelPositions[b].svgX
                  /\ labelPositions[a].epic.x <= labelPositions[b].epic.x
                  /\ labelPositions[a].epic.x = labelPositions[b].epic.x =>
                        InputIndex(a) < InputIndex(b)
        /\ \A a, b \in Processed :
              (a < b /\ labelPositions[a].epic.x = labelPositions[b].epic.x
                     /\ Accepted(b)) =>
                  Apart(labelPositions[b], labelPositions[a])

\* Two markers with the same progress and different titles: the one given
\* first was placed first, at a position of the side tried first, and the
\* one given second was accepted elsewhere than where it would stand alone.
C23_Witness ==
    /\ pc = "done"
    /\ DistinctKeys
    /\ Len(labelPositions) = 2
    /\ labelPositions[1].epic.x = labelPositions[2].epic.x
    /\ labelPositions[1].epic = epics[1]
    /\ labelPositions[2].epic = epics[2]
    /\ epics[1].title # epics[2].title
    /\ Accepted(1)
    /\ Accepted(2)
    /\ labelPositions[2].boxY # placed(initialLabelPositions(<<epics[2]>>), 1).boxY

----------------------------------------------------------------------------
(* C24 *)

\* The text consists of non-empty words separated by single spaces.
SingleSpaced(text) ==
    /\ text # <<>>
    /\ text[1] # " "
    /\ text[Len(text)] # " "
    /\ \A k \in 1..(Len(text) - 1) : ~(text[k] = " " /\ text[k + 1] = " ")

\* The words of lines[k..], line by line.
RECURSIVE WordsOfLines(_, _)
WordsOfLines(lines, k) ==
    IF k > Len(lines) THEN <<>>
    ELSE Split(lines[k]) \o WordsOfLines(lines, k + 1)

\* C24: wrapping at 18 characters never splits a word.  For a text of
\* non-empty words separated by single spaces, the words of the lines,
\* taken line by line, are the words of the text, each whole and once;
\* the lines joined with single spaces give the text back; and a line is
\* at most 18 characters long unless it is a single word longer than that.
C24_WrapKeepsWordsWhole ==
    \A j \in 1..Len(labelPositions) :
        LET text == labelPositions[j].epic.title
            lines == labelPositions[j].textLines
        IN  SingleSpaced(text) =>
                /\ WordsOfLines(lines, 1) = Split(text)
                /\ \A k \in 1..Len(lines) : SingleSpaced(lines[k])
                /\ JoinWords(lines) = text
                /\ \A k \in 1..Len(lines) :
                      \/ Len(lines[k]) <= 18
                      \/ \A c \in 1..Len(lines[k]) : lines[k][c] # " "

\* A text of four words wrapped to three lines: a 19-letter word alone on
\* a line, then two words that fill 18 characters exactly, then a
\* 9-letter word that did not fit.
C24_Witness ==
    /\ pc = "done"
    /\ Len(labelPositions) = 1
    /\ Len(Split(labelPositions[1].epic.title)) = 4
    /\ Len(labelPositions[1].textLines) = 3
    /\ Len(labelPositions[1].textLines[1]) = 19
    /\ Len(Split(labelPositions[1].textLines[2])) = 2
    /\ Len(labelPositions[1].textLines[2]) = 18
    /\ Len(labelPositions[1].textLines[3]) = 9

----------------------------------------------------------------------------
(* C25 *)

\* The vertical searches made so far: the calls of tryPosition that entered
\* the loop, as <<index, call>>.
Searches ==
    {c \in Processed \X {1, 2} :
        /\ c[2] <= Len(locals[c[1]].results)
        /\ locals[c[1]].results[c[2]].moved}

\* The box the search c ended on is beyond the band on the side the search
\* moved to.
CrossedBand(c) ==
    LET res == locals[c[1]].results[c[2]]
        h == labelPositions[c[1]].boxHeight
    IN  IF res.isBelowDot THEN res.boxY + h > 315 * Scale
        ELSE res.boxY < 45 * Scale

\* Every search made so far ended before the cap of 100 steps, on a
\* position it accepted or on the first step across the band boundary.
SearchesEndInBand ==
    \A c \in Searches :
        LET res == locals[c[1]].results[c[2]]
        IN  /\ res.attempts < maxAttempts
            /\ res.attempts <= BandSteps
            /\ res.success <=> ~CrossedBand(c)

\* C25: every vertical search ends before the cap of 100 steps, either
\* on a position it accepts or on the first step that takes the box across
\* the band boundary, so the cap is never why a search fails; and the
\* layout pass of every marker list comes to its end.
C25_SearchesAndPassTerminate == []SearchesEndInBand /\ <>(pc = "drawn")

\* The pass of a list of three markers is over; one of its searches failed
\* by crossing the band boundary after more than twenty steps and another
\* one succeeded after more than twenty steps.
C25_Witness ==
    /\ pc = "drawn"
    /\ Len(locals) = 3
    /\ \E c \in Searches :
          /\ ~locals[c[1]].results[c[2]].success
          /\ locals[c[1]].results[c[2]].attempts > 20
          /\ CrossedBand(c)
    /\ \E c \in Searches :
          /\ locals[c[1]].results[c[2]].success
          /\ locals[c[1]].results[c[2]].attempts > 20

----------------------------------------------------------------------------
(* C26 *)

\* The progress values of the list es are pairwise distinct.
DistinctProgress(es) == \A a, b \in 1..Len(es) : es[a].x = es[b].x => a = b

\* The second render's list holds the markers of the first render's list
\* in another or the same order.
Permuted ==
    /\ Len(history) = 1
    /\ Len(history[1].epics) = Len(epics)
    /\ \A n \in 1..Len(epics) : \E m \in 1..Len(epics) : history[1].epics[m] = epics[n]
    /\ \A m \in 1..Len(epics) : \E n \in 1..Len(epics) : history[1].epics[m] = epics[n]

----------------------------------------------------------------------------
(* C27 *)

\* C27: every marker (progress 0..100) is mapped to a point of the
\* drawable area: 40 <= x <= 760 and 40 <= y <= 320; both ends of both
\* ranges are taken, at progress 0, 100 and 50.
C27_AnchorsInDrawableArea ==
    \A j \in 1..Len(labelPositions) :
        LET l == labelPositions[j]
        IN  /\ l.svgX >= 40 * Scale
            /\ l.svgX <= 760 * Scale
            /\ l.svgY >= 40 * Scale
            /\ l.svgY <= 320 * Scale
            /\ l.epic.x = 0 => l.svgX = 40 * Scale /\ l.svgY = 320 * Scale
            /\ l.epic.x = 100 => l.svgX = 760 * Scale /\ l.svgY = 320 * Scale

\* Markers at progress 100 and 50 were drawn: the right end of the
\* baseline and the apex.
C27_Witness ==
    /\ pc = "drawn"
    /\ Len(labelPositions) = 2
    /\ labelPositions[1].epic.x = 50
    /\ labelPositions[1].svgY = 40 * Scale
    /\ labelPositions[2].epic.x = 100
    /\ labelPositions[2].svgX = 760 * Scale
    /\ labelPositions[2].svgY = 320 * Scale

----------------------------------------------------------------------------
(* C28 *)

\* C28: in any sequence of mousedown, mousemove and mouseup events,
\* onUpdateEpicX is called only by a mousemove while a drag is going on
\* (after a mousedown on a marker and before the next mouseup), one call
\* per event, with the key of the marker that got that mousedown and a
\* progress in [0, 100]; a mousemove before any mousedown or after the
\* mouseup calls nothing and changes no marker.
C28_UpdatesOnlyWhileDragging ==
    [][/\ updates' # updates =>
             /\ lastEvent' = "mousemove"
             /\ pressed # NoKey
             /\ Len(updates') = Len(updates) + 1
             /\ SubSeq(updates', 1, Len(updates)) = updates
             /\ updates'[Len(updates')].key = pressed
             /\ updates'[Len(updates')].x >= 0
             /\ updates'[Len(updates')].x <= 100
       /\ (handled' # handled /\ lastEvent' = "mousemove" /\ pressed = NoKey) =>
             /\ updates' = updates
             /\ epics' = epics]_vars

\* Marker "B" was dragged: one move beyond the right end of the hill
\* gave progress 100, one before its left end gave 0; the button was
\* released and a move after that changed nothing.
C28_Witness ==
    /\ pc = "drawn"
    /\ updates = <<[key |-> "B", x |-> 100], [key |-> "B", x |-> 0]>>
    /\ pressed = NoKey
    /\ lastEvent = "mouseup"
    /\ Len(epics) = 2
    /\ epics[2].x = 0

----------------------------------------------------------------------------
(* C29 *)

\* C29: a call handleUpdateEpicX(key, x) changes only the x of the
\* epics whose key is key, to x, and sets isModified; the number and the
\* order of the epics, their keys and titles and the x of every other epic
\* stay as they were, and when no epic has that key the list is unchanged.
C29_UpdateChangesOnlyThatProgress ==
    [][updates' # updates =>
          LET call == updates'[Len(updates')]
          IN  /\ isModified'
              /\ Len(epics') = Len(epics)
              /\ \A n \in 1..Len(epics) :
                    /\ epics'[n].key = epics[n].key
                    /\ epics'[n].title = epics[n].title
                    /\ epics'[n].x = IF epics[n].key = call.key THEN call.x ELSE epics[n].x
              /\ (\A n \in 1..Len(epics) : epics[n].key # call.key) => epics' = epics]_vars

\* Marker "B" of the list "A", "B" was moved to progress 100 by one call;
\* "A" is as it was given and the list is marked as modified.
C29_Witness ==
    /\ updates = <<[key |-> "B", x |-> 100]>>
    /\ isModified
    /\ epics = <<Epic(1, 25, Title(1, 1)), Epic(2, 100, Title(1, 1))>>

----------------------------------------------------------------------------
(* C30 *)

\* The email ends with "@parentsquare.com".
OfParentSquare(email) ==
    LET n == Len(email)
    IN  /\ n >= 17
        /\ SubSeq(email, n - 16, n)
             = <<"@", "p", "a", "r", "e", "n", "t", "s", "q", "u", "a", "r", "e",
                 ".", "c", "o", "m">>

\* C30: whatever auth-state changes, sign-ins and logouts happened, the
\* user the provider exposes is either null or has an email that ends with
\* "@parentsquare.com"; and when the callback has just handled an
\* auth-state change that carried a user of another domain, user is null,
\* the account is signed out and error is the access-restricted message.
C30_ExposedUserOfAllowedDomain ==
    /\ user.present => OfParentSquare(user.email)
    /\ (delivered.any /\ delivered.user.present
          /\ ~OfParentSquare(delivered.user.email)) =>
            /\ user = NoUser
            /\ currentUser = NoUser
            /\ error = "restricted"
            /\ ~loading

\* An auth-state change carrying the account whose domain only ends with
\* "parentsquare.com" was just handled: user is null, the
\* access-restricted error is set, the account is signed out and the
\* sign-out's own notification is waiting.
C30_Witness ==
    /\ delivered = Notified(LookAlike)
    /\ user = NoUser
    /\ error = "restricted"
    /\ currentUser = NoUser
    /\ pending = <<NoUser>>
    /\ ~loading

====
